---------------------------- MODULE Spec2Model ----------------------------
(***************************************************************************)
(* Model of 2D_drone_sim.c: a fixed-step simulation of a two-motor drone.  *)
(* Every C `double` is modelled bit-exactly as an IEEE-754 binary64 value  *)
(* (round to nearest, ties to even), because the loop test `t < End_time`  *)
(* and the zero/equality claims depend on what the arithmetic really       *)
(* returns.  TLC integers are 32 bits wide, so a 53-bit significand is     *)
(* kept as a little-endian sequence of 15-bit limbs.                       *)
(***************************************************************************)
EXTENDS Integers, Sequences, FiniteSets, TLC

(***************************************************************************)
(* Natural numbers of any size: little-endian limb sequences, no leading   *)
(* zero limb, <<>> is 0.                                                   *)
(***************************************************************************)
BASE == 2^15

Max(a, b) == IF a >= b THEN a ELSE b

Min(a, b) == IF a <= b THEN a ELSE b

Tl(s) == IF s = <<>> THEN <<>> ELSE Tail(s)

Hd(s) == IF s = <<>> THEN 0 ELSE Head(s)

RECURSIVE BNorm(_)
BNorm(a) ==
  IF a = <<>> THEN <<>>
  ELSE IF a[Len(a)] = 0 THEN BNorm(SubSeq(a, 1, Len(a) - 1))
  ELSE a

RECURSIVE BFromInt(_)
BFromInt(n) == IF n = 0 THEN <<>> ELSE <<n % BASE>> \o BFromInt(n \div BASE)

RECURSIVE BAddC(_, _, _)
BAddC(a, b, c) ==
  IF a = <<>> /\ b = <<>> THEN (IF c = 0 THEN <<>> ELSE <<c>>)
  ELSE LET x == Hd(a) + Hd(b) + c
       IN  <<x % BASE>> \o BAddC(Tl(a), Tl(b), x \div BASE)

BAdd(a, b) == BAddC(a, b, 0)

RECURSIVE BSubC(_, _, _)
BSubC(a, b, c) ==
  IF a = <<>> THEN <<>>
  ELSE LET x == Head(a) - Hd(b) - c
       IN  IF x < 0 THEN <<x + BASE>> \o BSubC(Tail(a), Tl(b), 1)
           ELSE <<x>> \o BSubC(Tail(a), Tl(b), 0)

\* a - b for a >= b
BSub(a, b) == BNorm(BSubC(a, b, 0))

RECURSIVE BCmpAt(_, _, _)
BCmpAt(a, b, i) ==
  IF i = 0 THEN 0
  ELSE IF a[i] < b[i] THEN -1
  ELSE IF a[i] > b[i] THEN 1
  ELSE BCmpAt(a, b, i - 1)

\* -1, 0, 1 as a < b, a = b, a > b
BCmp(a, b) ==
  IF Len(a) < Len(b) THEN -1
  ELSE IF Len(a) > Len(b) THEN 1
  ELSE BCmpAt(a, b, Len(a))

RECURSIVE BMulSmallC(_, _, _)
BMulSmallC(a, k, c) ==
  IF a = <<>> THEN (IF c = 0 THEN <<>> ELSE <<c>>)
  ELSE LET x == Head(a) * k + c
       IN  <<x % BASE>> \o BMulSmallC(Tail(a), k, x \div BASE)

\* a * k for 0 < k < BASE
BMulSmall(a, k) == BMulSmallC(a, k, 0)

ShiftLimb(a) == IF a = <<>> THEN <<>> ELSE <<0>> \o a

RECURSIVE BMul(_, _)
BMul(a, b) ==
  IF a = <<>> \/ b = <<>> THEN <<>>
  ELSE BAdd(IF Head(b) = 0 THEN <<>> ELSE BMulSmall(a, Head(b)),
            ShiftLimb(BMul(a, Tail(b))))

RECURSIVE ZeroLimbs(_)
ZeroLimbs(n) == IF n = 0 THEN <<>> ELSE <<0>> \o ZeroLimbs(n - 1)

\* a * 2^k
BShl(a, k) ==
  IF a = <<>> THEN <<>>
  ELSE ZeroLimbs(k \div 15) \o BMulSmall(a, 2^(k % 15))

\* floor(a / 2^k)
BShr(a, k) ==
  LET w == k \div 15
      r == k % 15
      n == Len(a) - w
  IN  IF n <= 0 THEN <<>>
      ELSE BNorm([i \in 1..n |->
                   (a[i + w] \div 2^r)
                   + (IF i + w < Len(a) THEN (a[i + w + 1] % 2^r) * 2^(15 - r) ELSE 0)])

\* bit i of a, bit 0 the least significant
Bit(a, i) ==
  IF i \div 15 + 1 > Len(a) THEN 0 ELSE (a[i \div 15 + 1] \div 2^(i % 15)) % 2

\* whether the k low bits of a are all 0
LowZero(a, k) ==
  /\ \A i \in 1..Min(k \div 15, Len(a)) : a[i] = 0
  /\ (k \div 15 + 1 <= Len(a) => a[k \div 15 + 1] % 2^(k % 15) = 0)

RECURSIVE LimbLen(_)
LimbLen(x) == IF x = 0 THEN 0 ELSE 1 + LimbLen(x \div 2)

\* the number of significant bits of a
BitLen(a) == IF a = <<>> THEN 0 ELSE 15 * (Len(a) - 1) + LimbLen(a[Len(a)])

(***************************************************************************)
(* binary64.  A finite value is (-1)^s * m * 2^e with m < 2^53 and         *)
(* e >= EMin; a normal value has 2^52 <= m, a subnormal one e = EMin, so   *)
(* every value has one representation and `=` on records is bit equality.  *)
(***************************************************************************)
EMin == 0 - 1074

Fin(s, m, e) == [k |-> "fin", s |-> s, e |-> e, m |-> m]

Inf(s) == [k |-> "inf", s |-> s, e |-> 0, m |-> <<>>]

\* the NaN an invalid operation (inf - inf, 0/0, inf * 0) returns on x86-64:
\* the default quiet NaN 0xfff8000000000000, whose sign bit is set
NaN == [k |-> "nan", s |-> 1, e |-> 0, m |-> <<>>]

\* an operation with a NaN operand returns that NaN.  (With two NaN operands
\* the instruction returns its destination operand, which the compiler picks
\* site by site; every NaN of this program is the default NaN, since the
\* source has no NaN literal and no negation, so the two never differ.)
OperandNaN(a, b) == IF a.k = "nan" THEN a ELSE b

Zero(s) == Fin(s, <<>>, EMin)

IsZero(a) == a.k = "fin" /\ a.m = <<>>

IsFinite(a) == a.k = "fin"

\* a finite result above the largest double overflows to infinity
Pack(s, m, e) == IF BitLen(m) + e > 1024 THEN Inf(s) ELSE Fin(s, m, e)

\* a significand that rounding carried to 2^53 moves up one exponent
Renorm(s, m, e) ==
  IF BitLen(m) = 54 THEN Pack(s, BShr(m, 1), e + 1) ELSE Pack(s, m, e)

\* whether dropping the q low bits of M + f rounds away from zero
RoundsUp(M, q, st) ==
  Bit(M, q - 1) = 1 /\ (st \/ ~LowZero(M, q - 1) \/ Bit(M, q) = 1)

\* (M + f) * 2^E with its q low bits rounded off
RoundAt(s, M, E, st, q) ==
  IF q <= 0 THEN Pack(s, BShl(M, 0 - q), E + q)
  ELSE Renorm(s, IF RoundsUp(M, q, st) THEN BAdd(BShr(M, q), <<1>>) ELSE BShr(M, q), E + q)

\* (-1)^s * (M + f) * 2^E rounded to nearest, ties to even, where the
\* fraction f is 0 when st is FALSE and 0 < f < 1 when st is TRUE
RoundPack(s, M, E, st) ==
  IF M = <<>> THEN Zero(s)
  ELSE RoundAt(s, M, E, st, Max(BitLen(M) - 53, EMin - E))

\* b as a - b adds it: its sign flipped; a NaN goes through the subtraction
\* as it is
FNeg(a) == IF a.k = "nan" THEN a ELSE [a EXCEPT !.s = 1 - a.s]

\* |A - B| * 2^E with the sign of the larger, +0 when they cancel
AddDiff(sa, A, sb, B, E, c) ==
  RoundPack(IF c = 0 THEN 0 ELSE IF c > 0 THEN sa ELSE sb,
            IF c = 0 THEN <<>> ELSE IF c > 0 THEN BSub(A, B) ELSE BSub(B, A),
            E, FALSE)

\* a + b for finite nonzero a, b with a.e >= b.e; beyond 60 bits of
\* distance b only decides the rounding
AddOrdered(a, b) ==
  IF a.e - b.e > 60
  THEN RoundPack(a.s, IF a.s = b.s THEN BShl(a.m, 3) ELSE BSub(BShl(a.m, 3), <<1>>),
                 a.e - 3, TRUE)
  ELSE IF a.s = b.s THEN RoundPack(a.s, BAdd(BShl(a.m, a.e - b.e), b.m), b.e, FALSE)
  ELSE AddDiff(a.s, BShl(a.m, a.e - b.e), b.s, b.m, b.e,
               BCmp(BShl(a.m, a.e - b.e), b.m))

\* the C expression a + b on doubles
FAdd(a, b) ==
  IF a.k = "nan" \/ b.k = "nan" THEN OperandNaN(a, b)
  ELSE IF a.k = "inf" THEN (IF b.k = "inf" /\ b.s # a.s THEN NaN ELSE a)
  ELSE IF b.k = "inf" THEN b
  ELSE IF a.m = <<>> /\ b.m = <<>> THEN Zero(IF a.s = b.s THEN a.s ELSE 0)
  ELSE IF a.m = <<>> THEN b
  ELSE IF b.m = <<>> THEN a
  ELSE AddOrdered(IF a.e >= b.e THEN a ELSE b, IF a.e >= b.e THEN b ELSE a)

\* the C expression a * b on doubles
FMul(a, b) ==
  IF a.k = "nan" \/ b.k = "nan" THEN OperandNaN(a, b)
  ELSE IF a.k = "inf" \/ b.k = "inf"
       THEN (IF IsZero(a) \/ IsZero(b) THEN NaN ELSE Inf((a.s + b.s) % 2))
  ELSE IF a.m = <<>> \/ b.m = <<>> THEN Zero((a.s + b.s) % 2)
  ELSE RoundPack((a.s + b.s) % 2, BMul(a.m, b.m), a.e + b.e, FALSE)

\* n more quotient bits of r / B by restoring division (r < 2B):
\* <<the bits as a number, the remainder>>
RECURSIVE DivChunk(_, _, _, _)
DivChunk(r, B, n, acc) ==
  IF n = 0 THEN <<acc, r>>
  ELSE IF BCmp(r, B) >= 0
       THEN DivChunk(BMulSmall(BSub(r, B), 2), B, n - 1, 2 * acc + 1)
       ELSE DivChunk(BMulSmall(r, 2), B, n - 1, 2 * acc)

PushLimb(c, rest) == <<Append(rest[1], c[1]), rest[2]>>

\* nl more limbs of the quotient, the most significant first:
\* <<the limbs, the remainder>>
RECURSIVE DivLimbs(_, _, _)
DivLimbs(c, B, nl) ==
  IF nl = 0 THEN <<<<c[1]>>, c[2]>>
  ELSE PushLimb(c, DivLimbs(DivChunk(c[2], B, 15, 0), B, nl - 1))

\* floor(A * 2^59 / B) and what is left, for A and B of the same bit length
DivBits(A, B) == DivLimbs(DivChunk(A, B, 15, 0), B, 3)

DivPack(s, qr, E) == RoundPack(s, BNorm(qr[1]), E, qr[2] # <<>>)

\* a / b for finite nonzero a, b, with la and lb the bit lengths of a.m and b.m
DivAligned(s, a, b, la, lb) ==
  DivPack(s, DivBits(BShl(a.m, Max(lb - la, 0)), BShl(b.m, Max(la - lb, 0))),
          (a.e - Max(lb - la, 0)) - (b.e - Max(la - lb, 0)) - 59)

\* the C expression a / b on doubles
FDiv(a, b) ==
  IF a.k = "nan" \/ b.k = "nan" THEN OperandNaN(a, b)
  ELSE IF a.k = "inf" THEN (IF b.k = "inf" THEN NaN ELSE Inf((a.s + b.s) % 2))
  ELSE IF b.k = "inf" THEN Zero((a.s + b.s) % 2)
  ELSE IF b.m = <<>> THEN (IF a.m = <<>> THEN NaN ELSE Inf((a.s + b.s) % 2))
  ELSE IF a.m = <<>> THEN Zero((a.s + b.s) % 2)
  ELSE DivAligned((a.s + b.s) % 2, a, b, BitLen(a.m), BitLen(b.m))

\* |a| < |b| for values that are not NaN
MagLess(a, b) ==
  IF a.k = "inf" THEN FALSE
  ELSE IF b.k = "inf" THEN TRUE
  ELSE a.e < b.e \/ (a.e = b.e /\ BCmp(a.m, b.m) < 0)

\* the C expression a < b on doubles
FLess(a, b) ==
  IF a.k = "nan" \/ b.k = "nan" THEN FALSE
  ELSE IF IsZero(a) /\ IsZero(b) THEN FALSE
  ELSE IF a.s # b.s THEN a.s = 1
  ELSE IF a.s = 0 THEN MagLess(a, b)
  ELSE MagLess(b, a)

\* the double of an integer literal
FromInt(n) == RoundPack(IF n < 0 THEN 1 ELSE 0, BFromInt(IF n < 0 THEN 0 - n ELSE n), 0, FALSE)

\* the double a decimal literal n/d denotes (n, d integers below 2^31)
Lit(n, d) == FDiv(FromInt(n), FromInt(d))

TenTo8 == BFromInt(100000000)

\* M * 2^e for e < 0 rounded to an integer, ties to even
RoundUnits(M, q) ==
  IF RoundsUp(M, q, FALSE) THEN BAdd(BShr(M, q), <<1>>) ELSE BShr(M, q)

\* what printf's %11.8f shows of x: the count of 1e-8 units nearest to |x|
\* (glibc rounds the exact binary value, ties to even), and the sign; inf
\* and nan print by name after their sign ("-nan" for the default NaN)
Fmt8(x) ==
  IF x.k # "fin" THEN [k |-> x.k, s |-> x.s, n |-> <<>>]
  ELSE IF x.e >= 0 THEN [k |-> "fin", s |-> x.s, n |-> BShl(BMul(x.m, TenTo8), x.e)]
  ELSE [k |-> "fin", s |-> x.s, n |-> RoundUnits(BMul(x.m, TenTo8), 0 - x.e)]

(***************************************************************************)
(* The program.                                                            *)
(***************************************************************************)
VARIABLES
  cfg,    \* the constants the program was built with (lines 22-32, 170-178)
  motor,  \* motor_t motor[2]
  drone,  \* drone_t drone
  t,      \* double t
  pc,     \* the statement of drone_sim about to run
  upd,    \* the assignments of lines 191-195 already done in this iteration
  out,    \* the rows print_state has written
  call    \* one call of rk4 on its own: its arguments and its return value

vars == <<cfg, motor, drone, t, pc, upd, out, call>>

RIGHT == 0

LEFT == 1

Motors == {RIGHT, LEFT}

\* the nominal constants, lines 22-32, and the values set in drone_sim
Nominal ==
  [Lm       |-> Lit(37, 100000),
   Rm       |-> Lit(12, 100),
   Km       |-> Lit(33, 10000),
   Jm       |-> Lit(81, 10000000),
   Cq       |-> Lit(3, 100000000),
   Dm       |-> FromInt(0),
   Ct       |-> Lit(35, 10000000),
   lcpt     |-> Lit(9, 100),
   Jcpt     |-> Lit(6, 1000),
   Md       |-> Lit(35, 100),
   End_time |-> Lit(5, 10),
   h        |-> Lit(1, 10000),
   u        |-> [m \in Motors |-> IF m = RIGHT THEN Lit(75, 10) ELSE Lit(74, 10)]]

Lm == cfg.Lm

Rm == cfg.Rm

Km == cfg.Km

Jm == cfg.Jm

Cq == cfg.Cq

Dm == cfg.Dm

Ct == cfg.Ct

lcpt == cfg.lcpt

Jcpt == cfg.Jcpt

End_time == cfg.End_time

h == cfg.h

RADPS2RPM == FDiv(FDiv(FromInt(60), FromInt(2)), Lit(314159, 100000))

(***************************************************************************)
(* A call of a C function or operator: Call(f, a) is f applied to the      *)
(* argument list a.  The arithmetic of the program below is written with   *)
(* Add, Sub, Mul and Div, and rk4 reaches its derivative through the       *)
(* function pointer the same way.                                          *)
(***************************************************************************)
RECURSIVE Call(_, _)

Add(a, b) == Call("+", <<a, b>>)

Sub(a, b) == Call("+", <<a, FNeg(b)>>)

Mul(a, b) == Call("*", <<a, b>>)

Div(a, b) == Call("/", <<a, b>>)

\* double i_dot(double i, double t, double *value)
i_dot(i, tt, value) ==
  LET omega == value[1]
      u     == value[2]
  IN  Div(Sub(Sub(u, Mul(Rm, i)), Mul(Km, omega)), Lm)

\* double omega_dot(double omega, double t, double *value)
omega_dot(omega, tt, value) ==
  LET i  == value[1]
      TL == Mul(Mul(Cq, omega), omega)
  IN  Div(Sub(Sub(Mul(Km, i), Mul(Dm, omega)), TL), Jm)

\* q_dot with the two thrusts added instead of subtracted
q_dot_sum(q, tt, value) ==
  LET omega_R == value[1]
      omega_L == value[2]
      T_R     == Mul(Mul(Ct, omega_R), omega_R)
      T_L     == Mul(Mul(Ct, omega_L), omega_L)
  IN  Div(Mul(Add(T_R, T_L), lcpt), Jcpt)

\* double q_dot(double q, double t, double *value)
q_dot(q, tt, value) ==
  LET omega_R == value[1]
      omega_L == value[2]
      T_R     == Mul(Mul(Ct, omega_R), omega_R)
      T_L     == Mul(Mul(Ct, omega_L), omega_L)
  IN  Div(Mul(Sub(T_R, T_L), lcpt), Jcpt)

\* double theta_dot(double theta, double t, double *value)
theta_dot(theta, tt, value) ==
  LET q == value[1]
  IN  q

Half == Lit(5, 10)

Two == FromInt(2)

Six == FromInt(6)

\* x + (k1 + k2*2.0 + k3*2.0 + k4)/6
Rk4Sum(x, k1, k2, k3, k4) ==
  Add(x, Div(Add(Add(Add(k1, Mul(k2, Two)), Mul(k3, Two)), k4), Six))

\* k4 = h * dxdt(x+h*k3, t+h, value) and the return
Rk4Stage4(dxdt, x, tt, hh, value, k1, k2, k3) ==
  Rk4Sum(x, k1, k2, k3,
         Mul(hh, Call(dxdt, <<Add(x, Mul(hh, k3)), Add(tt, hh), value>>)))

\* k3 = h * dxdt(x+0.5*h*k2, t+0.5*h, value)
Rk4Stage3(dxdt, x, tt, hh, value, k1, k2) ==
  Rk4Stage4(dxdt, x, tt, hh, value, k1, k2,
            Mul(hh, Call(dxdt, <<Add(x, Mul(Mul(Half, hh), k2)),
                                 Add(tt, Mul(Half, hh)), value>>)))

\* k2 = h * dxdt(x+0.5*h*k1, t+0.5*h, value)
Rk4Stage2(dxdt, x, tt, hh, value, k1) ==
  Rk4Stage3(dxdt, x, tt, hh, value, k1,
            Mul(hh, Call(dxdt, <<Add(x, Mul(Mul(Half, hh), k1)),
                                 Add(tt, Mul(Half, hh)), value>>)))

\* double rk4(dxdt, x, t, h, n, ...): args are the variadic arguments;
\* k1 = h * dxdt(x, t, value)
rk4(dxdt, x, tt, hh, n, args) ==
  LET value == [j \in 1..n |-> args[j]]
  IN  Rk4Stage2(dxdt, x, tt, hh, value, Mul(hh, Call(dxdt, <<x, tt, value>>)))

Call(f, a) ==
  CASE f = "+"         -> FAdd(a[1], a[2])
    [] f = "*"         -> FMul(a[1], a[2])
    [] f = "/"         -> FDiv(a[1], a[2])
    [] f = "i_dot"     -> i_dot(a[1], a[2], a[3])
    [] f = "omega_dot" -> omega_dot(a[1], a[2], a[3])
    [] f = "q_dot"     -> q_dot(a[1], a[2], a[3])
    [] f = "theta_dot" -> theta_dot(a[1], a[2], a[3])
    [] f = "rk4"       -> rk4(a[1], a[2], a[3], a[4], a[5], a[6])

\* save_state with omega copied into u_ as well
save_motor_u_from_omega(mo) ==
  [m \in Motors |->
     [i |-> mo[m].i, omega |-> mo[m].omega, u |-> mo[m].u,
      i_ |-> mo[m].i, omega_ |-> mo[m].omega, u_ |-> mo[m].omega]]

\* void save_state(motor_t* motor, drone_t* drone): the motors.  The fields
\* i_, omega_ and u_ have a value from here on.
save_motor(mo) ==
  [m \in Motors |->
     [i |-> mo[m].i, omega |-> mo[m].omega, u |-> mo[m].u,
      i_ |-> mo[m].i, omega_ |-> mo[m].omega, u_ |-> mo[m].u]]

\* save_state with q copied into theta_ as well
save_drone_theta_from_q(dr) ==
  [q |-> dr.q, theta |-> dr.theta, q_ |-> dr.q, theta_ |-> dr.q]

\* void save_state(motor_t* motor, drone_t* drone): the drone.  The fields q_
\* and theta_ have a value from here on.
save_drone(dr) ==
  [q |-> dr.q, theta |-> dr.theta, q_ |-> dr.q, theta_ |-> dr.theta]

\* void print_state(double t, motor_t* motor, drone_t drone): the row written
print_state(tt, mo, dr) ==
  [time  |-> Fmt8(tt),
   iR    |-> Fmt8(mo[RIGHT].i),
   iL    |-> Fmt8(mo[LEFT].i),
   rpmR  |-> Fmt8(FMul(mo[RIGHT].omega, RADPS2RPM)),
   rpmL  |-> Fmt8(FMul(mo[LEFT].omega, RADPS2RPM)),
   q     |-> Fmt8(dr.q),
   theta |-> Fmt8(dr.theta)]

\* line 191: motor[m].i = rk4(i_dot, motor[m].i_, t, h, 2, motor[m].omega_, motor[m].u_)
UpdateI(mo, m) ==
  [mo EXCEPT ![m].i =
     Call("rk4", <<"i_dot", mo[m].i_, t, h, 2, <<mo[m].omega_, mo[m].u_>>>>)]

\* line 192 reading the current just advanced instead of its snapshot
UpdateOmegaFresh(mo, m) ==
  [mo EXCEPT ![m].omega =
     Call("rk4", <<"omega_dot", mo[m].omega_, t, h, 1, <<mo[m].i>>>>)]

\* line 192: motor[m].omega = rk4(omega_dot, motor[m].omega_, t, h, 1, motor[m].i_)
UpdateOmega(mo, m) ==
  [mo EXCEPT ![m].omega =
     Call("rk4", <<"omega_dot", mo[m].omega_, t, h, 1, <<mo[m].i_>>>>)]

\* line 194 reading the angular velocities just advanced instead of their snapshots
UpdateQFresh(mo, dr) ==
  [dr EXCEPT !.q =
     Call("rk4", <<"q_dot", dr.q_, t, h, 2, <<mo[RIGHT].omega, mo[LEFT].omega>>>>)]

\* line 194: drone.q = rk4(q_dot, drone.q_, t, h, 2, motor[RIGHT].omega_, motor[LEFT].omega_)
UpdateQ(mo, dr) ==
  [dr EXCEPT !.q =
     Call("rk4", <<"q_dot", dr.q_, t, h, 2, <<mo[RIGHT].omega_, mo[LEFT].omega_>>>>)]

\* line 195 reading the rate just advanced instead of its snapshot
UpdateThetaFresh(mo, dr) ==
  [dr EXCEPT !.theta = Call("rk4", <<"theta_dot", dr.theta_, t, h, 1, <<dr.q>>>>)]

\* line 195: drone.theta = rk4(theta_dot, drone.theta_, t, h, 1, drone.q_)
UpdateTheta(mo, dr) ==
  [dr EXCEPT !.theta = Call("rk4", <<"theta_dot", dr.theta_, t, h, 1, <<dr.q_>>>>)]

(***************************************************************************)
(* The six assignments of lines 189-195, numbered in the order the code    *)
(* runs them: 1, 2 the right motor's i and omega, 3, 4 the left motor's,   *)
(* 5 drone.q, 6 drone.theta.                                               *)
(***************************************************************************)
Assignments == 1..6

MotorOf(k) == IF k <= 2 THEN RIGHT ELSE LEFT

\* motor after assignment k
AssignMotor(k, mo) ==
  IF k \in {1, 3} THEN UpdateI(mo, MotorOf(k))
  ELSE IF k \in {2, 4} THEN UpdateOmega(mo, MotorOf(k))
  ELSE mo

\* drone after assignment k
AssignDrone(k, mo, dr) ==
  IF k = 5 THEN UpdateQ(mo, dr)
  ELSE IF k = 6 THEN UpdateTheta(mo, dr)
  ELSE dr

(***************************************************************************)
(* Bounds of the model.  A run of the nominal program takes 5001           *)
(* iterations; the model keeps the nominal step size and constants and     *)
(* shortens End_time to a few steps.                                       *)
(***************************************************************************)
ShortTicks == 4

LongTicks == 26

Volts == {Lit(74, 10), Lit(75, 10)}

WithEnd(c, ticks) == [c EXCEPT !.End_time = Lit(ticks, 10000)]

WithVolts(c, a, b) == [c EXCEPT !.u = [m \in Motors |-> IF m = RIGHT THEN a ELSE b]]

\* the nominal program with End_time shortened, and with other voltages
Configs ==
  {WithEnd(Nominal, LongTicks)}
  \cup {WithVolts(WithEnd(Nominal, ShortTicks), a, b) : a \in Volts, b \in Volts}

Short == WithEnd(Nominal, ShortTicks)

\* the state after line 178.  The declarations of lines 164-165 give the
\* fields i_, omega_, u_, q_ and theta_ no value; what their storage holds is
\* indeterminate and differs from build to build and run to run, and no
\* statement reads it before save_state writes all of them (line 186).  A
\* field is part of the state from the statement that first writes it.
InitWith(C) ==
  /\ cfg \in C
  /\ motor = [m \in Motors |-> [i |-> FromInt(0), omega |-> FromInt(0), u |-> cfg.u[m]]]
  /\ drone = [q |-> FromInt(0), theta |-> FromInt(0)]
  /\ t = FromInt(0)
  /\ pc = "print0"
  /\ upd = {}
  /\ out = <<>>
  /\ call = [pc |-> "idle"]

Init == InitWith(Configs)

\* line 181: print_state(t, motor, drone) before the loop
PrintInitial ==
  /\ pc = "print0"
  /\ out' = Append(out, print_state(t, motor, drone))
  /\ pc' = "while"
  /\ UNCHANGED <<cfg, motor, drone, t, upd, call>>

\* line 183: while (t < End_time), taken
LoopEnter ==
  /\ pc = "while"
  /\ FLess(t, End_time)
  /\ pc' = "save"
  /\ UNCHANGED <<cfg, motor, drone, t, upd, out, call>>

\* line 183: while (t < End_time), not taken: drone_sim returns
LoopExit ==
  /\ pc = "while"
  /\ ~FLess(t, End_time)
  /\ pc' = "done"
  /\ UNCHANGED <<cfg, motor, drone, t, upd, out, call>>

\* line 186: save_state(motor, &drone)
SaveState ==
  /\ pc = "save"
  /\ motor' = save_motor(motor)
  /\ drone' = save_drone(drone)
  /\ upd' = {}
  /\ pc' = "update"
  /\ UNCHANGED <<cfg, t, out, call>>

\* one of the assignments of lines 191-195
Update(k) ==
  /\ pc = "update"
  /\ k \notin upd
  /\ motor' = AssignMotor(k, motor)
  /\ drone' = AssignDrone(k, motor, drone)
  /\ upd' = upd \cup {k}
  /\ pc' = IF upd' = Assignments THEN "advance" ELSE "update"
  /\ UNCHANGED <<cfg, t, out, call>>

\* lines 189-195 in the order the code runs them
UpdateNext == \E k \in Assignments : upd = 1..(k - 1) /\ Update(k)

\* line 196: t = t + h
AdvanceTime ==
  /\ pc = "advance"
  /\ t' = FAdd(t, h)
  /\ pc' = "print"
  /\ UNCHANGED <<cfg, motor, drone, upd, out, call>>

\* line 199: print_state(t, motor, drone)
PrintStep ==
  /\ pc = "print"
  /\ out' = Append(out, print_state(t, motor, drone))
  /\ pc' = "while"
  /\ UNCHANGED <<cfg, motor, drone, t, upd, call>>

Next ==
  \/ PrintInitial
  \/ LoopEnter
  \/ LoopExit
  \/ SaveState
  \/ UpdateNext
  \/ AdvanceTime
  \/ PrintStep

Spec == Init /\ [][Next]_vars
(***************************************************************************)
(* The six assignments of lines 189-195 run in any order after save_state. *)
(***************************************************************************)
UpdateAny == \E k \in Assignments : Update(k)

NextOrder ==
  \/ PrintInitial
  \/ LoopEnter
  \/ LoopExit
  \/ SaveState
  \/ UpdateAny
  \/ AdvanceTime
  \/ PrintStep

\* the short runs, one for each pair of voltages
ShortConfigs == {WithVolts(Short, a, b) : a \in Volts, b \in Volts}

InitOrder == InitWith(ShortConfigs)

SpecOrder == InitOrder /\ [][NextOrder]_vars

(***************************************************************************)
(* One call of rk4 on its own, for each derivative function of the program *)
(* and arguments from small sets.                                          *)
(***************************************************************************)
Derivatives == {"i_dot", "omega_dot", "q_dot", "theta_dot"}

\* the number of variadic arguments each derivative function reads
Arity(f) == IF f \in {"i_dot", "q_dot"} THEN 2 ELSE 1

StartValues == {FromInt(0), FromInt(1), Lit(-25, 10)}

Times == {FromInt(0), Lit(5, 10)}

StepSizes == {FromInt(1), Lit(1, 10000), Lit(5, 10)}

AuxValues == {FromInt(0), Lit(75, 10), FromInt(100)}

InitRk4 ==
  /\ cfg = Nominal
  /\ motor = [m \in Motors |-> [i |-> FromInt(0), omega |-> FromInt(0), u |-> cfg.u[m]]]
  /\ drone = [q |-> FromInt(0), theta |-> FromInt(0)]
  /\ t = FromInt(0)
  /\ pc = "rk4"
  /\ upd = {}
  /\ out = <<>>
  /\ \E f \in Derivatives, x \in StartValues, tt \in Times, hh \in StepSizes,
        a \in AuxValues, b \in AuxValues :
       call = [pc |-> "call", dxdt |-> f, x |-> x, t |-> tt, h |-> hh,
               n |-> Arity(f), args |-> IF Arity(f) = 2 THEN <<a, b>> ELSE <<a>>]

\* the call returns
Rk4Return ==
  /\ call.pc = "call"
  /\ call' = [call EXCEPT !.pc = "ret"] @@
             [ret |-> Call("rk4", <<call.dxdt, call.x, call.t, call.h, call.n, call.args>>)]
  /\ UNCHANGED <<cfg, motor, drone, t, pc, upd, out>>

SpecRk4 == InitRk4 /\ [][Rk4Return]_vars

(***************************************************************************)
(* Properties.                                                             *)
(***************************************************************************)

\* the field assignment k writes
Field(k, mo, dr) ==
  CASE k = 1 -> mo[RIGHT].i
    [] k = 2 -> mo[RIGHT].omega
    [] k = 3 -> mo[LEFT].i
    [] k = 4 -> mo[LEFT].omega
    [] k = 5 -> dr.q
    [] k = 6 -> dr.theta

\* the snapshot save_state took of that field
Snapshot(k, mo, dr) ==
  CASE k = 1 -> mo[RIGHT].i_
    [] k = 2 -> mo[RIGHT].omega_
    [] k = 3 -> mo[LEFT].i_
    [] k = 4 -> mo[LEFT].omega_
    [] k = 5 -> dr.q_
    [] k = 6 -> dr.theta_

\* all the snapshot fields
Snapshots(mo, dr) ==
  <<[m \in Motors |-> <<mo[m].i_, mo[m].omega_, mo[m].u_>>], dr.q_, dr.theta_>>

\* what rk4 returns for assignment k when its starting value and every
\* auxiliary value are snapshot fields
FromSnapshot(k, mo, dr) ==
  CASE k \in {1, 3} ->
         Call("rk4", <<"i_dot", mo[MotorOf(k)].i_, t, h, 2,
                       <<mo[MotorOf(k)].omega_, mo[MotorOf(k)].u_>>>>)
    [] k \in {2, 4} ->
         Call("rk4", <<"omega_dot", mo[MotorOf(k)].omega_, t, h, 1, <<mo[MotorOf(k)].i_>>>>)
    [] k = 5 ->
         Call("rk4", <<"q_dot", dr.q_, t, h, 2, <<mo[RIGHT].omega_, mo[LEFT].omega_>>>>)
    [] k = 6 ->
         Call("rk4", <<"theta_dot", dr.theta_, t, h, 1, <<dr.q_>>>>)

\* a point of the run at which a row has just been written
Emitted == pc \in {"while", "done"}

FAbs(a) == [a EXCEPT !.s = 0]

\* a and b are the same double, or differ by less than 1e-6
Close(a, b) == a = b \/ FLess(FAbs(Sub(a, b)), Lit(1, 1000000))

\* the classical Runge-Kutta step: every stage argument is x plus half (or
\* all) of the previous k
Rk4Claimed(f, x, tt, hh, value) ==
  LET k1 == Mul(hh, Call(f, <<x, tt, value>>))
      k2 == Mul(hh, Call(f, <<Add(x, Div(k1, Two)), Add(tt, Div(hh, Two)), value>>))
      k3 == Mul(hh, Call(f, <<Add(x, Div(k2, Two)), Add(tt, Div(hh, Two)), value>>))
      k4 == Mul(hh, Call(f, <<Add(x, k3), Add(tt, hh), value>>))
  IN  Add(x, Div(Add(Add(Add(k1, Mul(Two, k2)), Mul(Two, k3)), k4), Six))

\* C1: one call of rk4 returns x + (k1 + 2*k2 + 2*k3 + k4)/6 with
\* k1 = h*f(x, t, aux), k2 = h*f(x + k1/2, t + h/2, aux),
\* k3 = h*f(x + k2/2, t + h/2, aux), k4 = h*f(x + k3, t + h, aux).
\* Stated up to 1e-6, so that no rounding of the last digit decides it.
\* The code passes x + 0.5*h*k1, x + 0.5*h*k2 and x + h*k3 to the stages.
Rk4ReturnsClassicalStep ==
  call.pc = "ret" =>
    Close(call.ret,
          Rk4Claimed(call.dxdt, call.x, call.t, call.h,
                     [j \in 1..call.n |-> call.args[j]]))

\* one step of the program seen from the snapshot: save_state copies the
\* current fields, and an assignment of lines 191-195 leaves every snapshot
\* field alone and stores what rk4 returns for snapshot arguments
SnapshotStep ==
  /\ pc = "save" =>
       /\ \A k \in Assignments : Snapshot(k, motor', drone') = Field(k, motor, drone)
       /\ \A m \in Motors : motor'[m].u_ = motor[m].u
  /\ pc = "update" =>
       /\ Snapshots(motor', drone') = Snapshots(motor, drone)
       /\ \A k \in upd' \ upd :
            Field(k, motor', drone') = FromSnapshot(k, motor, drone)

\* C2: in every step each of the six rk4 integrations starts from, and
\* couples through, only the snapshot fields save_state copied at the start
\* of the step; none reads a field already advanced in the step.
IntegrationsReadSnapshot == [][SnapshotStep]_vars

\* a step in which an integration ran after another had already changed a
\* field it is coupled to
IntegrationsReadSnapshotSeen ==
  /\ pc = "advance"
  /\ motor[RIGHT].omega # motor[RIGHT].omega_
  /\ motor[LEFT].omega # motor[LEFT].omega_
  /\ ~IsZero(drone.q)
  /\ drone.q # drone.q_

\* the time of row j is at least End_time, both at the eight decimals of a row
RowAtLeastEnd(j) ==
  /\ out[j].time.k = "fin"
  /\ out[j].time.s = 0
  /\ BCmp(out[j].time.n, Fmt8(End_time).n) >= 0

\* C3: the rows start with one row at time 0, the times then increase by h
\* from row to row, and the last row is the first whose time is >= End_time.
\* The code writes one more row after the row whose time is End_time.
EmittedTimesEndAtEndTime ==
  pc = "done" =>
    /\ Len(out) >= 1
    /\ out[1].time.n = <<>>
    /\ \A j \in 1..(Len(out) - 1) :
         out[j + 1].time.n = BAdd(out[j].time.n, Fmt8(h).n)
    /\ RowAtLeastEnd(Len(out))
    /\ \A j \in 1..(Len(out) - 1) : ~RowAtLeastEnd(j)

\* s * h < End_time, exactly, on the values the two doubles have
StepsBelowEnd(s) ==
  \/ s = 0
  \/ IF h.e >= End_time.e
     THEN BCmp(BShl(BMulSmall(h.m, s), h.e - End_time.e), End_time.m) < 0
     ELSE BCmp(BMulSmall(h.m, s), BShl(End_time.m, End_time.e - h.e)) < 0

\* C4: for positive h and End_time the loop is done after at most
\* ceil(End_time / h) steps: the number of steps taken, one per row after the
\* first, is n with (n - 1) * h < End_time.  (That nothing happens after done
\* holds: no action is enabled there.)
LoopWithinStepBound ==
  pc = "done" => (Len(out) >= 1 /\ StepsBelowEnd(Max(Len(out) - 2, 0)))

\* C5: with the same voltage on both motors, every row shows equal currents
\* and equal angular velocities and q = 0 and theta = 0, and so do the
\* variables the row was written from.
EqualVoltagesStaySymmetric ==
  cfg.u[RIGHT] = cfg.u[LEFT] =>
    /\ \A j \in 1..Len(out) :
         /\ out[j].iR = out[j].iL
         /\ out[j].rpmR = out[j].rpmL
         /\ out[j].q.k = "fin" /\ out[j].q.n = <<>>
         /\ out[j].theta.k = "fin" /\ out[j].theta.n = <<>>
    /\ Emitted =>
         /\ motor[RIGHT].i = motor[LEFT].i
         /\ motor[RIGHT].omega = motor[LEFT].omega
         /\ IsZero(drone.q)
         /\ IsZero(drone.theta)

\* a finished run with equal voltages in which the motors turn
EqualVoltagesStaySymmetricSeen ==
  /\ cfg.u[RIGHT] = cfg.u[LEFT]
  /\ pc = "done"
  /\ Len(out) >= 4
  /\ ~IsZero(motor[RIGHT].omega)
  /\ out[Len(out)].rpmL.n # <<>>

\* C7: the voltage of each motor keeps the value set at initialization in
\* every reachable state, and once save_state has run the snapshot u_ equals
\* it.
VoltageNeverChanges ==
  /\ \A m \in Motors : motor[m].u = cfg.u[m]
  /\ (pc \in {"update", "advance", "print"} \/ Len(out) >= 2) =>
       \A m \in Motors : motor[m].u_ = cfg.u[m]

\* the nominal voltages after several steps
VoltageNeverChangesSeen ==
  /\ pc = "done"
  /\ Len(out) >= 4
  /\ motor[RIGHT].u = Lit(75, 10)
  /\ motor[LEFT].u = Lit(74, 10)
  /\ motor[RIGHT].u_ = Lit(75, 10)
  /\ motor[LEFT].u_ = Lit(74, 10)

\* C8, as the specification states it: within a step no current field is
\* overwritten before all six integrations have completed.
OverwriteAfterAllSix ==
  pc = "update" => \A k \in Assignments : Field(k, motor, drone) = Snapshot(k, motor, drone)

\* C8, amended: within a step each current field is overwritten as soon as
\* its own integration returns, with what rk4 returns for the snapshot
\* fields; a field whose integration has not run yet still equals its
\* snapshot.
OverwriteAsIntegrated ==
  pc \in {"update", "advance"} =>
    \A k \in Assignments :
      Field(k, motor, drone) = IF k \in upd THEN FromSnapshot(k, motor, drone)
                               ELSE Snapshot(k, motor, drone)

\* the right motor's current overwritten while the other five integrations
\* have not run
OverwriteAsIntegratedSeen ==
  /\ pc = "update"
  /\ upd = {1}
  /\ motor[RIGHT].i # motor[RIGHT].i_
  /\ motor[RIGHT].omega = motor[RIGHT].omega_

\* the current fields set back to their snapshots: the state save_state left
RestoreMotor(mo) ==
  [m \in Motors |-> [mo[m] EXCEPT !.i = mo[m].i_, !.omega = mo[m].omega_]]

RestoreDrone(dr) == [dr EXCEPT !.q = dr.q_, !.theta = dr.theta_]

\* assignments k..6 in the order of the source
RECURSIVE StepFrom(_, _, _)
StepFrom(k, mo, dr) ==
  IF k > 6 THEN <<mo, dr>>
  ELSE StepFrom(k + 1, AssignMotor(k, mo), AssignDrone(k, mo, dr))

\* C9: whatever the order in which the six integrations run after
\* save_state, the step ends in the state the order of the source gives.
OrderIndependent ==
  pc = "advance" => <<motor, drone>> = StepFrom(1, RestoreMotor(motor), RestoreDrone(drone))

\* the drone integrated before the motors, and the left motor before the
\* right, in a step that changes q
OrderIndependentSeen ==
  /\ pc = "update"
  /\ upd = {3, 4, 5, 6}
  /\ drone.q # drone.q_
  /\ motor[LEFT].omega # motor[LEFT].omega_

\* C10: from the all-zero start, whatever the voltages, both angular
\* velocities are 0 in the row at time h, q is 0 in the rows at h and 2h, and
\* theta is 0 in the rows at h, 2h and 3h (row j + 1 is the row at j*h), in
\* the rows and in the variables they were written from.
ZeroPropagation ==
  /\ \A j \in 1..Len(out) :
       /\ j = 2 => out[j].rpmR.n = <<>> /\ out[j].rpmL.n = <<>>
       /\ j \in 2..3 => out[j].q.n = <<>>
       /\ j \in 2..4 => out[j].theta.n = <<>>
  /\ (Emitted /\ Len(out) = 2) => \A m \in Motors : IsZero(motor[m].omega)
  /\ (Emitted /\ Len(out) \in 2..3) => IsZero(drone.q)
  /\ (Emitted /\ Len(out) \in 2..4) => IsZero(drone.theta)

\* the row at 3h with different voltages: the motors turn, q has left 0 and
\* theta has not
ZeroPropagationSeen ==
  /\ Emitted
  /\ Len(out) = 4
  /\ cfg.u[RIGHT] # cfg.u[LEFT]
  /\ ~IsZero(motor[RIGHT].omega)
  /\ ~IsZero(drone.q)
  /\ IsZero(drone.theta)
  /\ out[3].rpmR.n # <<>>

=============================================================================
